---- MODULE Spec2Model ----
(***************************************************************************)
(* Cookie Box Quantity Discount Function                                   *)
(* (src/cart_lines_discounts_generate_run.js).                             *)
(*                                                                         *)
(* The function is a single synchronous pass over one input snapshot.  It  *)
(* is modelled as a state machine whose initial states are the inputs and  *)
(* whose steps are the statements of cart_lines_discounts_generate_run:    *)
(* the eligibility gate, one step per iteration of the loop over the cart  *)
(* lines, and the construction of the response.                            *)
(*                                                                         *)
(* Representation of JavaScript values:                                    *)
(*   - a value is a record tagged by its type; a property that is missing  *)
(*     reads as undefined, so a missing field is a field holding undefined *)
(*   - a text (title, sku, metafield value, keyword) is a sequence of      *)
(*     one-character strings, so that toLowerCase, trim and includes are   *)
(*     computed character by character                                     *)
(*   - a money amount is an integer number of thousandths of a currency    *)
(*     unit, so that a pricing table may hold totals between two cents;    *)
(*     the shipped prices are whole currency units and the differences     *)
(*     computed here have the sign and the two-decimal rendering that      *)
(*     the double arithmetic of the source gives them                      *)
(*   - DISCOUNT_CONFIG is a module-level object of the source that the     *)
(*     merchant edits ("Edit these values to match your pricing"); the     *)
(*     table the function runs with is the state variable discountConfig   *)
(***************************************************************************)
EXTENDS Integers, Sequences, FiniteSets, TLC

VARIABLES input, pc, idx, candidates, size, result, discountConfig

vars == <<input, pc, idx, candidates, size, result, discountConfig>>

-----------------------------------------------------------------------------
(* JavaScript values *)

undefined == [type |-> "undefined"]
null == [type |-> "null"]
Num(n) == [type |-> "number", val |-> n]
Str(s) == [type |-> "string", val |-> s]

-----------------------------------------------------------------------------
(* String primitives used by the source *)

UpperLetters == <<"A","B","C","D","E","F","G","H","I","J","K","L","M",
                  "N","O","P","Q","R","S","T","U","V","W","X","Y","Z">>
LowerLetters == <<"a","b","c","d","e","f","g","h","i","j","k","l","m",
                  "n","o","p","q","r","s","t","u","v","w","x","y","z">>
WhiteSpace == {" ", "\t", "\n"}

\* mutant of toLowerCase: the text is compared as written
toLowerCase_Identity(s) == s

\* String.prototype.toLowerCase
toLowerCase(s) ==
  [k \in 1..Len(s) |->
     IF \E u \in 1..Len(UpperLetters) : UpperLetters[u] = s[k]
     THEN LowerLetters[CHOOSE u \in 1..Len(UpperLetters) : UpperLetters[u] = s[k]]
     ELSE s[k]]

\* String.prototype.trim
trim(s) ==
  LET keep == {k \in 1..Len(s) : s[k] \notin WhiteSpace}
  IN IF keep = {} THEN <<>>
     ELSE LET first == CHOOSE k \in keep : \A j \in keep : k <= j
              last == CHOOSE k \in keep : \A j \in keep : k >= j
          IN SubSeq(s, first, last)

\* String.prototype.includes
includes(s, kw) ==
  \E k \in 0..(Len(s) - Len(kw)) : SubSeq(s, k + 1, k + Len(kw)) = kw

Digit(d) == CASE d = 0 -> "0" [] d = 1 -> "1" [] d = 2 -> "2" [] d = 3 -> "3"
              [] d = 4 -> "4" [] d = 5 -> "5" [] d = 6 -> "6" [] d = 7 -> "7"
              [] d = 8 -> "8" [] d = 9 -> "9"

\* decimal rendering of a non-negative integer (Number::toString)
RECURSIVE NumberToString(_)
NumberToString(n) ==
  IF n < 10 THEN Digit(n) ELSE NumberToString(n \div 10) \o Digit(n % 10)

\* Number.prototype.toFixed(2) of an amount held in thousandths: rounded to
\* the nearest cent
toFixed2(amount) ==
  LET cents == (amount + 5) \div 10
  IN NumberToString(cents \div 100) \o "." \o
     Digit((cents % 100) \div 10) \o Digit(cents % 10)

\* Number.prototype.toFixed(0) of an amount held in thousandths: rounded to
\* the nearest unit
toFixed0(amount) == NumberToString((amount + 500) \div 1000)

\* key under which a value indexes an object (ToPropertyKey)
ToPropertyKey(v) ==
  IF v.type = "number" THEN NumberToString(v.val) ELSE v.type

-----------------------------------------------------------------------------
(* CONFIGURATION *)

\* mutant of DISCOUNT_CONFIG: the 12-unit totals of the two sizes swapped
DISCOUNT_CONFIG_Swapped ==
  [s \in {"500g", "1kg"} |->
     IF s = "500g"
     THEN [unitPrice |-> 59000, tiers |-> [k \in {"6", "12"} |-> IF k = "6" THEN 330000 ELSE 1020000]]
     ELSE [unitPrice |-> 99000, tiers |-> [k \in {"6", "12"} |-> IF k = "6" THEN 540000 ELSE 600000]]]

DISCOUNT_CONFIG ==
  [s \in {"500g", "1kg"} |->
     IF s = "500g"
     THEN [unitPrice |-> 59000, tiers |-> [k \in {"6", "12"} |-> IF k = "6" THEN 330000 ELSE 600000]]
     ELSE [unitPrice |-> 99000, tiers |-> [k \in {"6", "12"} |-> IF k = "6" THEN 540000 ELSE 1020000]]]

\* mutant of SIZE_KEYWORDS: the 1kg entry declared before the 500g entry
SIZE_KEYWORDS_Reordered ==
  << [size |-> "1kg",
      keywords |-> << <<"1","k","g">>, <<"1"," ","k","g">>,
                      <<"1","0","0","0","g">>, <<"1","0","0","0"," ","g">> >>],
     [size |-> "500g",
      keywords |-> << <<"5","0","0","g">>, <<"5","0","0"," ","g">>,
                      <<"5","0","0","g","r">>, <<"0",".","5","k","g">> >>] >>

\* Object.entries(SIZE_KEYWORDS): the entries in declaration order
SIZE_KEYWORDS ==
  << [size |-> "500g",
      keywords |-> << <<"5","0","0","g">>, <<"5","0","0"," ","g">>,
                      <<"5","0","0","g","r">>, <<"0",".","5","k","g">> >>],
     [size |-> "1kg",
      keywords |-> << <<"1","k","g">>, <<"1"," ","k","g">>,
                      <<"1","0","0","0","g">>, <<"1","0","0","0"," ","g">> >>] >>

-----------------------------------------------------------------------------
(* HELPER FUNCTIONS *)

\* keywords.some(kw => text.includes(kw.toLowerCase()))
someKeyword(keywords, text) ==
  \E k \in 1..Len(keywords) : includes(text, toLowerCase(keywords[k]))

\* for (const [size, keywords] of Object.entries(SIZE_KEYWORDS)) { ... return size }
\* the first entry one of whose keywords the text includes, or null
matchSize(text) ==
  LET hits == {e \in 1..Len(SIZE_KEYWORDS) : someKeyword(SIZE_KEYWORDS[e].keywords, text)}
  IN IF hits = {} THEN null
     ELSE Str(SIZE_KEYWORDS[CHOOSE e \in hits : \A f \in hits : e <= f].size)

\* truthiness of merchandise.boxSize?.value
hasBoxSizeValue(merchandise) ==
  /\ merchandise.boxSize.type = "object"
  /\ merchandise.boxSize.value.type = "string"
  /\ merchandise.boxSize.value.val # <<>>

\* (x || '') for a text property
orEmpty(v) == IF v.type = "string" THEN v.val ELSE <<>>

\* mutant of getSizeFromVariant: the title is consulted before the metafield
getSizeFromVariant_TitleFirst(merchandise) ==
  LET title == toLowerCase(orEmpty(merchandise.title))
      metaValue == IF hasBoxSizeValue(merchandise)
                   THEN trim(toLowerCase(merchandise.boxSize.value.val)) ELSE <<>>
      sku == toLowerCase(orEmpty(merchandise.sku))
  IN IF matchSize(title) # null THEN matchSize(title)
     ELSE IF matchSize(metaValue) # null THEN matchSize(metaValue)
     ELSE matchSize(sku)

\* mutant of getSizeFromVariant: a metafield value that matches no keyword
\* ends the search
getSizeFromVariant_TagStops(merchandise) ==
  LET metaValue == trim(toLowerCase(merchandise.boxSize.value.val))
      title == toLowerCase(orEmpty(merchandise.title))
      sku == toLowerCase(orEmpty(merchandise.sku))
  IN IF hasBoxSizeValue(merchandise) THEN matchSize(metaValue)
     ELSE IF matchSize(title) # null THEN matchSize(title)
     ELSE IF matchSize(sku) # null THEN matchSize(sku)
     ELSE null

getSizeFromVariant(merchandise) ==
  LET metaValue == trim(toLowerCase(merchandise.boxSize.value.val))
      title == toLowerCase(orEmpty(merchandise.title))
      sku == toLowerCase(orEmpty(merchandise.sku))
  IN IF hasBoxSizeValue(merchandise) /\ matchSize(metaValue) # null
     THEN matchSize(metaValue)
     ELSE IF matchSize(title) # null THEN matchSize(title)
     ELSE IF matchSize(sku) # null THEN matchSize(sku)
     ELSE null

\* mutant of calculateDiscount: a quantity above a tier gets the tier below it
calculateDiscount_AtLeast(sz, quantity) ==
  LET config == discountConfig[sz]
      key == IF quantity.type # "number" THEN "undefined"
             ELSE IF quantity.val >= 12 THEN "12"
             ELSE IF quantity.val >= 6 THEN "6" ELSE "none"
  IN IF sz \notin DOMAIN discountConfig THEN null
     ELSE IF key \notin DOMAIN config.tiers THEN null
     ELSE LET tierPrice == config.tiers[key]
              fullPrice == config.unitPrice * quantity.val
              discountAmount == fullPrice - tierPrice
          IN IF discountAmount <= 0 THEN null
             ELSE [type |-> "object", amount |-> discountAmount, fullPrice |-> fullPrice,
                   tierPrice |-> tierPrice, savings |-> discountAmount]

calculateDiscount(sz, quantity) ==
  LET config == discountConfig[sz]
      key == ToPropertyKey(quantity)
  IN IF sz \notin DOMAIN discountConfig THEN null
     ELSE IF key \notin DOMAIN config.tiers THEN null
     ELSE LET tierPrice == config.tiers[key]
              fullPrice == config.unitPrice * quantity.val
              discountAmount == fullPrice - tierPrice
          IN IF discountAmount <= 0 THEN null
             ELSE [type |-> "object", amount |-> discountAmount, fullPrice |-> fullPrice,
                   tierPrice |-> tierPrice, savings |-> discountAmount]

\* mutant of getDiscountMessage: the savings rendered with cents
getDiscountMessage_Cents(quantity, sz, savings) ==
  ToPropertyKey(quantity) \o "x " \o sz \o " Bundle Deal - Save R" \o toFixed2(savings)

getDiscountMessage(quantity, sz, savings) ==
  ToPropertyKey(quantity) \o "x " \o sz \o " Bundle Deal - Save R" \o toFixed0(savings)

\* mutant of isProductVariant: a line without a merchandise kind is accepted
isProductVariant_Lenient(line) ==
  /\ line.merchandise.type = "object"
  /\ line.merchandise.typename \in {undefined, Str("ProductVariant")}

\* line.merchandise?.__typename === 'ProductVariant'
isProductVariant(line) ==
  /\ line.merchandise.type = "object"
  /\ line.merchandise.typename = Str("ProductVariant")

\* mutant of hasProductDiscountClass: a missing discount record counts as eligible
hasProductDiscountClass_Lenient(in) ==
  IF in.discount.type # "object" THEN TRUE
  ELSE IF in.discount.discountClasses.type # "array" THEN TRUE
  ELSE \E k \in 1..Len(in.discount.discountClasses.val) :
          in.discount.discountClasses.val[k] = "PRODUCT"

\* input.discount?.discountClasses?.includes('PRODUCT')
hasProductDiscountClass(in) ==
  /\ in.discount.type = "object"
  /\ in.discount.discountClasses.type = "array"
  /\ \E k \in 1..Len(in.discount.discountClasses.val) :
        in.discount.discountClasses.val[k] = "PRODUCT"

\* input.cart?.lines || []
cartLines(in) ==
  IF in.cart.type = "object" /\ in.cart.lines.type = "array"
  THEN in.cart.lines.val ELSE <<>>

RECURSIVE SumQuantities(_)
SumQuantities(ls) ==
  IF ls = <<>> THEN 0
  ELSE (IF Head(ls).quantity.type = "number" THEN Head(ls).quantity.val ELSE 0)
       + SumQuantities(Tail(ls))

\* mutant of lineQuantity: the units of all the lines of the cart holding the
\* same merchandise are counted together
lineQuantity_Pooled(line) ==
  IF line.quantity.type # "number" THEN line.quantity
  ELSE Num(SumQuantities(SelectSeq(cartLines(input),
                                   LAMBDA l : l.merchandise = line.merchandise)))

\* const quantity = line.quantity
lineQuantity(line) == line.quantity

\* mutant of push: the new candidate is put in front
push_Front(arr, x) == <<x>> \o arr

\* Array.prototype.push
push(arr, x) == Append(arr, x)

\* the object pushed for a line that gets a discount
candidateFor(line, sz, discount) ==
  [targets |-> << [cartLine |-> [id |-> line.id]] >>,
   message |-> getDiscountMessage(lineQuantity(line), sz, discount.savings),
   value |-> [fixedAmount |-> [amount |-> toFixed2(discount.amount)]]]

\* mutant of buildResponse: the operation is returned even without candidates
buildResponse_Always(cands) ==
  [operations |->
     << [productDiscountsAdd |-> [selectionStrategy |-> "ALL", candidates |-> cands]] >>]

\* "Build the response"
buildResponse(cands) ==
  IF Len(cands) = 0
  THEN [operations |-> <<>>]
  ELSE [operations |->
          << [productDiscountsAdd |-> [selectionStrategy |-> "ALL", candidates |-> cands]] >>]

-----------------------------------------------------------------------------
(* INPUTS *)

MaxLines == 2
MaxQuantity == 13

T500g == <<"5","0","0","g">>
T1kg == <<"1","k","g">>
T1000g == <<"1","0","0","0","g">>

\* signal values: keyword spellings, their case and whitespace variants,
\* texts with keywords of both sizes, and texts without any keyword
SignalTexts ==
  { <<>>, <<" "," ">>, <<"x","l">>,
    T500g, <<"5","0","0"," ","g">>, <<"5","0","0"," ","G">>, <<"5","0","0"," "," ","g">>,
    <<"0",".","5","k","g">>, <<"0",".","5"," ","K","G">>, <<"B","o","x"," ","5","0","0","G","R">>,
    T1kg, <<"1"," ","K","G">>, <<" ","1","K","g"," ">>, T1000g, <<"1","0","0","0"," ","g">>,
    <<"1"," "," ","k","g">>,
    <<"1","k","g","/","5","0","0","g">>, <<"5","0","0","g","/","1","k","g">> }

SignalValues == {undefined} \cup {Str(t) : t \in SignalTexts}

Metafield(v) == IF v = undefined THEN undefined ELSE [type |-> "object", value |-> v]

Variant(kind, title, sku, tag) ==
  [type |-> "object", typename |-> kind, title |-> title, sku |-> sku,
   boxSize |-> Metafield(tag)]

\* lines of the multi-line carts: well-formed lines of both sizes around the
\* tiers, a tag-only line, an unclassifiable line, a line that is not a
\* product variant, and lines missing one required field
LineTemplates ==
  { [hasId |-> TRUE, quantity |-> Num(q),
     merchandise |-> Variant(Str("ProductVariant"), Str(t), undefined, undefined)] :
       q \in {6, 7, 12}, t \in {T500g, T1kg} }
  \cup
  { [hasId |-> TRUE, quantity |-> Num(3),
     merchandise |-> Variant(Str("ProductVariant"), Str(T500g), undefined, undefined)],
    [hasId |-> TRUE, quantity |-> Num(12),
     merchandise |-> Variant(Str("ProductVariant"), undefined, undefined, Str(T1000g))],
    [hasId |-> TRUE, quantity |-> Num(6),
     merchandise |-> Variant(Str("ProductVariant"), Str(<<"x","l">>), undefined, undefined)],
    [hasId |-> TRUE, quantity |-> Num(6),
     merchandise |-> Variant(Str("CustomProduct"), Str(T500g), undefined, undefined)],
    [hasId |-> TRUE, quantity |-> Num(6),
     merchandise |-> Variant(undefined, Str(T500g), undefined, undefined)],
    [hasId |-> TRUE, quantity |-> Num(6), merchandise |-> undefined],
    [hasId |-> TRUE, quantity |-> undefined,
     merchandise |-> Variant(Str("ProductVariant"), Str(T500g), undefined, undefined)],
    [hasId |-> FALSE, quantity |-> Num(6),
     merchandise |-> Variant(Str("ProductVariant"), Str(T500g), undefined, undefined)] }

\* the cart line at position k made from a template
LineAt(k, tpl) ==
  [id |-> IF tpl.hasId THEN Str("gid://shopify/CartLine/" \o NumberToString(k)) ELSE undefined,
   quantity |-> tpl.quantity,
   merchandise |-> tpl.merchandise]

Carts ==
  UNION { { [k \in 1..n |-> LineAt(k, f[k])] : f \in [1..n -> LineTemplates] } : n \in 0..MaxLines }

\* one-line carts over every combination of the three signals
SignalCarts ==
  { << LineAt(1, [hasId |-> TRUE, quantity |-> Num(12),
                  merchandise |-> Variant(Str("ProductVariant"), ti, sk, tg)]) >> :
      ti \in SignalValues, sk \in SignalValues, tg \in SignalValues }

\* one-line carts over every quantity up to MaxQuantity
QuantityCarts ==
  { << LineAt(1, [hasId |-> TRUE, quantity |-> Num(q),
                  merchandise |-> Variant(Str("ProductVariant"), Str(t), undefined, undefined)]) >> :
      q \in 1..MaxQuantity, t \in {T500g, T1kg} }

Discounts ==
  { undefined,
    [type |-> "object", discountClasses |-> undefined],
    [type |-> "object", discountClasses |-> [type |-> "array", val |-> <<>>]],
    [type |-> "object", discountClasses |-> [type |-> "array", val |-> <<"ORDER", "SHIPPING">>]],
    [type |-> "object", discountClasses |-> [type |-> "array", val |-> <<"PRODUCT">>]],
    [type |-> "object", discountClasses |-> [type |-> "array", val |-> <<"ORDER", "PRODUCT">>]] }

CartOf(ls) == [type |-> "object", lines |-> [type |-> "array", val |-> ls]]

Inputs ==
  { [discount |-> d, cart |-> CartOf(ls)] : d \in Discounts, ls \in Carts }
  \cup
  { [discount |-> d, cart |-> c] :
      d \in Discounts, c \in {undefined, [type |-> "object", lines |-> undefined]} }
  \cup
  { [discount |-> [type |-> "object", discountClasses |-> [type |-> "array", val |-> <<"PRODUCT">>]],
     cart |-> CartOf(ls)] : ls \in SignalCarts \cup QuantityCarts }

-----------------------------------------------------------------------------
(* MAIN FUNCTION *)

Init ==
  /\ input \in Inputs
  /\ pc = "gate"
  /\ idx = 0
  /\ candidates = <<>>
  /\ size = undefined
  /\ result = undefined
  /\ discountConfig = DISCOUNT_CONFIG

\* if (!hasProductDiscountClass) return { operations: [] }
ReturnNotEligible ==
  /\ pc = "gate"
  /\ ~hasProductDiscountClass(input)
  /\ result' = [operations |-> <<>>]
  /\ pc' = "done"
  /\ UNCHANGED <<input, idx, candidates, size, discountConfig>>

\* const candidates = []; for (const line of input.cart?.lines || [])
EnterLoop ==
  /\ pc = "gate"
  /\ hasProductDiscountClass(input)
  /\ candidates' = <<>>
  /\ idx' = 1
  /\ pc' = "loop"
  /\ UNCHANGED <<input, size, result, discountConfig>>

\* if (line.merchandise?.__typename !== 'ProductVariant') continue
SkipNotProductVariant ==
  /\ pc = "loop"
  /\ idx <= Len(cartLines(input))
  /\ ~isProductVariant(cartLines(input)[idx])
  /\ idx' = idx + 1
  /\ UNCHANGED <<input, pc, candidates, size, result, discountConfig>>

\* if (!size) continue
SkipNoSize ==
  /\ pc = "loop"
  /\ idx <= Len(cartLines(input))
  /\ LET line == cartLines(input)[idx] IN
       /\ isProductVariant(line)
       /\ getSizeFromVariant(line.merchandise) = null
       /\ size' = getSizeFromVariant(line.merchandise)
  /\ idx' = idx + 1
  /\ UNCHANGED <<input, pc, candidates, result, discountConfig>>

\* calculateDiscount returned null: nothing is pushed
NoDiscount ==
  /\ pc = "loop"
  /\ idx <= Len(cartLines(input))
  /\ LET line == cartLines(input)[idx] IN
       /\ isProductVariant(line)
       /\ getSizeFromVariant(line.merchandise) # null
       /\ calculateDiscount(getSizeFromVariant(line.merchandise).val, lineQuantity(line)) = null
       /\ size' = getSizeFromVariant(line.merchandise)
  /\ idx' = idx + 1
  /\ UNCHANGED <<input, pc, candidates, result, discountConfig>>

\* if (discount) candidates.push({...})
PushCandidate ==
  /\ pc = "loop"
  /\ idx <= Len(cartLines(input))
  /\ LET line == cartLines(input)[idx] IN
       /\ isProductVariant(line)
       /\ getSizeFromVariant(line.merchandise) # null
       /\ LET sz == getSizeFromVariant(line.merchandise).val
              discount == calculateDiscount(sz, lineQuantity(line))
          IN /\ discount # null
             /\ candidates' = push(candidates, candidateFor(line, sz, discount))
       /\ size' = getSizeFromVariant(line.merchandise)
  /\ idx' = idx + 1
  /\ UNCHANGED <<input, pc, result, discountConfig>>

\* the loop is over: build and return the response
ReturnResponse ==
  /\ pc = "loop"
  /\ idx > Len(cartLines(input))
  /\ result' = buildResponse(candidates)
  /\ pc' = "done"
  /\ UNCHANGED <<input, idx, candidates, size, discountConfig>>

Next ==
  \/ ReturnNotEligible
  \/ EnterLoop
  \/ SkipNotProductVariant
  \/ SkipNoSize
  \/ NoDiscount
  \/ PushCandidate
  \/ ReturnResponse

Spec == Init /\ [][Next]_vars

-----------------------------------------------------------------------------
(* The function under an edited pricing table *)

TierOf(unitPrice, total6, total12) ==
  [unitPrice |-> unitPrice,
   tiers |-> [k \in {"6", "12"} |-> IF k = "6" THEN total6 ELSE total12]]

\* bundle totals a merchant may enter for q units: the shipped total, a total
\* 0.004 below the full price, the full price itself, and a total above it
TotalsFor(unitPrice, q, shipped) ==
  {shipped, unitPrice * q - 4, unitPrice * q, unitPrice * q + 1000}

PricingTables ==
  { [s \in {"500g", "1kg"} |->
       IF s = "500g" THEN TierOf(59000, a6, a12) ELSE TierOf(99000, b[1], b[2])] :
      a6 \in TotalsFor(59000, 6, 330000),
      a12 \in TotalsFor(59000, 12, 600000),
      b \in { <<540000, 1020000>>, <<99000 * 6 - 4, 99000 * 12 - 4>>,
              <<99000 * 6, 99000 * 12>>, <<99000 * 6 + 1000, 99000 * 12 + 1000>> } }

TableLineTemplates ==
  { [hasId |-> TRUE, quantity |-> Num(q),
     merchandise |-> Variant(Str("ProductVariant"), Str(t), undefined, undefined)] :
       q \in {6, 12}, t \in {T500g, T1kg} }
  \cup
  { [hasId |-> TRUE, quantity |-> Num(7),
     merchandise |-> Variant(Str("ProductVariant"), Str(T500g), undefined, undefined)],
    [hasId |-> TRUE, quantity |-> Num(6),
     merchandise |-> Variant(Str("ProductVariant"), Str(<<"x","l">>), undefined, undefined)],
    [hasId |-> TRUE, quantity |-> Num(6),
     merchandise |-> Variant(Str("CustomProduct"), Str(T500g), undefined, undefined)] }

TableCarts ==
  UNION { { [k \in 1..n |-> LineAt(k, f[k])] : f \in [1..n -> TableLineTemplates] } :
          n \in 0..MaxLines }

TableInputs ==
  { [discount |-> [type |-> "object", discountClasses |-> [type |-> "array", val |-> <<"PRODUCT">>]],
     cart |-> CartOf(ls)] : ls \in TableCarts }
  \cup
  { [discount |-> undefined, cart |-> CartOf(ls)] : ls \in {c \in TableCarts : Len(c) <= 1} }

InitAnyTable ==
  /\ input \in TableInputs
  /\ pc = "gate"
  /\ idx = 0
  /\ candidates = <<>>
  /\ size = undefined
  /\ result = undefined
  /\ discountConfig \in PricingTables

SpecAnyTable == InitAnyTable /\ [][Next]_vars

-----------------------------------------------------------------------------
(* Vocabulary of the properties *)

Lines == cartLines(input)

Returned == pc = "done"

\* the discount record names the product class
NamesProductClass ==
  /\ input.discount # undefined
  /\ input.discount.discountClasses # undefined
  /\ "PRODUCT" \in {input.discount.discountClasses.val[k] :
                      k \in 1..Len(input.discount.discountClasses.val)}

\* the candidates of the returned operations, in order
Emitted ==
  IF Returned /\ Len(result.operations) > 0
  THEN result.operations[1].productDiscountsAdd.candidates
  ELSE <<>>

TargetId(c) == c.targets[1].cartLine.id

KeywordsOf(C) ==
  LET e == CHOOSE x \in 1..Len(SIZE_KEYWORDS) : SIZE_KEYWORDS[x].size = C
  IN {SIZE_KEYWORDS[e].keywords[k] : k \in 1..Len(SIZE_KEYWORDS[e].keywords)}

Categories == {"500g", "1kg"}

\* the text of a signal value as the classifier reads it
Lowered(v) == IF v.type = "string" THEN toLowerCase(v.val) ELSE <<>>

TextHasKeywordOf(text, C) == \E kw \in KeywordsOf(C) : includes(text, kw)

HasKeywordOf(v, C) == TextHasKeywordOf(Lowered(v), C)

HasKeyword(v) == \E C \in Categories : HasKeywordOf(v, C)

TagOf(m) == IF m.boxSize = undefined THEN undefined ELSE m.boxSize.value

IsVariantLine(line) ==
  /\ line.merchandise # undefined
  /\ line.merchandise.typename = Str("ProductVariant")

IsTierQuantity(q) == q \in {Num(6), Num(12)}

\* a line that is due a discount: a product variant, some signal of which
\* carries a size keyword, at a quantity of 6 or 12
Qualifies(line) ==
  /\ IsVariantLine(line)
  /\ IsTierQuantity(line.quantity)
  /\ \/ HasKeyword(TagOf(line.merchandise))
     \/ HasKeyword(line.merchandise.title)
     \/ HasKeyword(line.merchandise.sku)

QualifyingLines == SelectSeq(Lines, Qualifies)

\* a line of one plain size: no tag, no sku, the title is the size itself
PlainLineOf(line, C) ==
  /\ IsVariantLine(line)
  /\ line.merchandise.boxSize = undefined
  /\ line.merchandise.sku = undefined
  /\ line.merchandise.title = Str(IF C = "500g" THEN T500g ELSE T1kg)

\* the last line the loop has gone through, when it was classified
LastLine == Lines[idx - 1]

Classified == pc \in {"loop", "done"} /\ idx >= 2 /\ IsVariantLine(LastLine)

-----------------------------------------------------------------------------
(* C1: a line whose quantity is not exactly 6 or 12 gets no discount:       *)
(* calculateDiscount returns null for it whatever its size, and no          *)
(* returned candidate targets it.                                           *)
C1_ExactMatchOnly ==
  \A k \in 1..Len(Lines) :
    (Lines[k].quantity.type = "number" /\ ~IsTierQuantity(Lines[k].quantity)) =>
      /\ \A C \in Categories : calculateDiscount(C, Lines[k].quantity) = null
      /\ \A j \in 1..Len(candidates) : TargetId(candidates[j]) # Lines[k].id
      /\ \A j \in 1..Len(Emitted) : TargetId(Emitted[j]) # Lines[k].id

\* 7 x 500g next to 6 x 500g: only the second line is discounted
C1_Witness ==
  /\ Returned /\ NamesProductClass /\ Len(Lines) = 2
  /\ PlainLineOf(Lines[1], "500g") /\ Lines[1].quantity = Num(7)
  /\ PlainLineOf(Lines[2], "500g") /\ Lines[2].quantity = Num(6)
  /\ Len(Emitted) = 1 /\ TargetId(Emitted[1]) = Lines[2].id

-----------------------------------------------------------------------------
\* the discounts of the shipped table, as the two-decimal strings expected
ExpectedAmount(C, q) ==
  CASE C = "500g" /\ q = 6 -> "24.00"
    [] C = "500g" /\ q = 12 -> "108.00"
    [] C = "1kg" /\ q = 6 -> "54.00"
    [] C = "1kg" /\ q = 12 -> "168.00"

(* C2: at a tier quantity calculateDiscount yields the strictly positive    *)
(* amount unitPrice * q - tierTotal, and the candidate of such a line       *)
(* carries it with two decimals: 24.00, 108.00, 54.00, 168.00.              *)
C2_TierAmounts ==
  (Returned /\ NamesProductClass) =>
    \A k \in 1..Len(Lines) : \A C \in Categories :
      (PlainLineOf(Lines[k], C) /\ IsTierQuantity(Lines[k].quantity) /\ Lines[k].id # undefined) =>
        LET q == Lines[k].quantity.val
            d == calculateDiscount(C, Lines[k].quantity)
            mine == {j \in 1..Len(Emitted) : TargetId(Emitted[j]) = Lines[k].id}
        IN /\ d # null
           /\ d.amount > 0
           /\ d.amount = DISCOUNT_CONFIG[C].unitPrice * q
                           - DISCOUNT_CONFIG[C].tiers[NumberToString(q)]
           /\ Cardinality(mine) = 1
           /\ \A j \in mine : Emitted[j].value.fixedAmount.amount = ExpectedAmount(C, q)

\* 12 x 500g and 12 x 1kg in one cart: 108.00 and 168.00
C2_Witness ==
  /\ Returned /\ Len(Lines) = 2 /\ Len(Emitted) = 2
  /\ PlainLineOf(Lines[1], "500g") /\ Lines[1].quantity = Num(12)
  /\ PlainLineOf(Lines[2], "1kg") /\ Lines[2].quantity = Num(12)
  /\ Emitted[1].value.fixedAmount.amount = "108.00"
  /\ Emitted[2].value.fixedAmount.amount = "168.00"

-----------------------------------------------------------------------------
(* C3: an eligible run over a cart with qualifying lines returns exactly    *)
(* one operation, with strategy ALL, whose candidates are one per           *)
(* qualifying line, each targeting that line's id alone, in cart order.     *)
C3_OneCandidatePerQualifyingLine ==
  (Returned /\ NamesProductClass /\ Len(QualifyingLines) > 0) =>
    /\ Len(result.operations) = 1
    /\ result.operations[1].productDiscountsAdd.selectionStrategy = "ALL"
    /\ Len(Emitted) = Len(QualifyingLines)
    /\ \A j \in 1..Len(Emitted) :
         /\ Len(Emitted[j].targets) = 1
         /\ TargetId(Emitted[j]) = QualifyingLines[j].id

\* a 1kg line before a 500g line, both at tier quantities: two candidates in that order
C3_Witness ==
  /\ Returned /\ Len(Lines) = 2 /\ Len(Emitted) = 2
  /\ PlainLineOf(Lines[1], "1kg") /\ PlainLineOf(Lines[2], "500g")
  /\ TargetId(Emitted[1]) = Lines[1].id
  /\ TargetId(Emitted[2]) = Lines[2].id
  /\ Lines[1].id # Lines[2].id

-----------------------------------------------------------------------------
(* C4: a cart without qualifying lines returns no operation, and no         *)
(* returned operation ever has an empty candidate list.                     *)
C4_NoEmptyOperation ==
  Returned =>
    /\ Len(QualifyingLines) = 0 => result.operations = <<>>
    /\ \A o \in 1..Len(result.operations) :
         Len(result.operations[o].productDiscountsAdd.candidates) > 0

\* an eligible run over lines none of which qualifies
C4_Witness ==
  /\ Returned /\ NamesProductClass /\ Len(Lines) = 2
  /\ ~IsVariantLine(Lines[1])
  /\ PlainLineOf(Lines[2], "500g") /\ Lines[2].quantity = Num(7)
  /\ result.operations = <<>>

-----------------------------------------------------------------------------
(* C5: when the discount classes do not include PRODUCT, or the discount    *)
(* or its discountClasses are absent, no operation is returned, whatever    *)
(* the cart holds.                                                          *)
C5_EligibilityGate ==
  (Returned /\ ~NamesProductClass) => result.operations = <<>>

\* an ineligible run over a cart with a qualifying line
C5_Witness ==
  /\ Returned /\ ~NamesProductClass
  /\ Len(QualifyingLines) > 0
  /\ result.operations = <<>>

-----------------------------------------------------------------------------
\* the tag is one the classifier reads (a non-empty value)
TagRead(m) == TagOf(m) # undefined /\ TagOf(m).val # <<>>

\* the categories declared before C in the keyword configuration
DeclaredBefore(C) == IF C = "1kg" THEN {"500g"} ELSE {}

(* C6 as stated: a tag value matching a keyword of category C classifies    *)
(* the line as C, whatever the title and the sku.                           *)
C6_TagMatchDecides ==
  Classified =>
    \A C \in Categories :
      (TagRead(LastLine.merchandise) /\ HasKeywordOf(TagOf(LastLine.merchandise), C)) =>
        size = Str(C)

(* C6 amended: a tag value matching a keyword of category C, and no keyword *)
(* of a category declared before C, classifies the line as C, whatever the  *)
(* title and the sku; tag "1000g" alone at quantity 12 yields 168.00.       *)
C6_TagPriority ==
  Classified =>
    \A C \in Categories :
      ( /\ TagRead(LastLine.merchandise)
        /\ HasKeywordOf(TagOf(LastLine.merchandise), C)
        /\ \A B \in DeclaredBefore(C) : ~HasKeywordOf(TagOf(LastLine.merchandise), B) ) =>
        /\ size = Str(C)
        /\ (Returned /\ Len(Lines) = 1 /\ LastLine.quantity = Num(12)) =>
             /\ Len(Emitted) = 1
             /\ Emitted[1].value.fixedAmount.amount = ExpectedAmount(C, 12)

\* tag "1000g" against a title that says 500g: the line is a 1kg line
C6_Witness ==
  /\ Returned /\ Len(Lines) = 1 /\ IsVariantLine(Lines[1])
  /\ TagOf(Lines[1].merchandise) = Str(T1000g)
  /\ Lines[1].merchandise.title = Str(T500g)
  /\ size = Str("1kg")
  /\ Len(Emitted) = 1
  /\ Emitted[1].value.fixedAmount.amount = "168.00"

-----------------------------------------------------------------------------
toUpperCase(s) ==
  [k \in 1..Len(s) |->
     IF \E u \in 1..Len(LowerLetters) : LowerLetters[u] = s[k]
     THEN UpperLetters[CHOOSE u \in 1..Len(LowerLetters) : LowerLetters[u] = s[k]]
     ELSE s[k]]

\* a text without its whitespace and without its letter case
Squash(t) == SelectSeq(toLowerCase(t), LAMBDA c : c \notin WhiteSpace)

SameButCaseAndSpace(t, u) == Squash(t) = Squash(u)

\* the merchandise with one of its three signals replaced
WithTitle(m, v) == [m EXCEPT !.title = v]
WithSku(m, v) == [m EXCEPT !.sku = v]
WithTag(m, v) == [m EXCEPT !.boxSize = Metafield(v)]

(* C7 as stated: two values of a signal that differ only in letter case or  *)
(* in the amount of whitespace resolve to the same category.                *)
C7_CaseAndSpaceInsensitive ==
  Classified =>
    LET m == LastLine.merchandise IN
    \A t \in SignalTexts :
      /\ (m.title # undefined /\ SameButCaseAndSpace(t, m.title.val)) =>
           getSizeFromVariant(WithTitle(m, Str(t))) = size
      /\ (m.sku # undefined /\ SameButCaseAndSpace(t, m.sku.val)) =>
           getSizeFromVariant(WithSku(m, Str(t))) = size
      /\ (TagOf(m) # undefined /\ SameButCaseAndSpace(t, TagOf(m).val)) =>
           getSizeFromVariant(WithTag(m, Str(t))) = size

Spellings500g ==
  { T500g, <<"5","0","0"," ","g">>, <<"5","0","0"," ","G">>, <<"0",".","5","k","g">> }

Spellings1kg ==
  { T1kg, <<"1"," ","K","G">>, T1000g, <<"1","0","0","0"," ","g">> }

Padded(t) == <<" ">> \o t \o <<" ", " ">>

\* the line carries one signal only
OnlySignal(m, v) ==
  \/ m.title = v /\ m.sku = undefined /\ TagOf(m) = undefined
  \/ m.title = undefined /\ m.sku = v /\ TagOf(m) = undefined
  \/ m.title = undefined /\ m.sku = undefined /\ TagOf(m) = v

(* C7 amended: in every signal source the category does not depend on the   *)
(* letter case of the value nor on whitespace before or after it; between   *)
(* the number and the unit only the listed spellings are recognised:        *)
(* "500g", "500 g", "500 G", "0.5kg" resolve to 500g and "1kg", "1 KG",     *)
(* "1000g", "1000 g" to 1kg.                                                *)
C7_CaseInsensitive ==
  Classified =>
    LET m == LastLine.merchandise IN
    /\ m.title # undefined =>
         /\ getSizeFromVariant(WithTitle(m, Str(toUpperCase(m.title.val)))) = size
         /\ getSizeFromVariant(WithTitle(m, Str(Padded(m.title.val)))) = size
    /\ m.sku # undefined =>
         /\ getSizeFromVariant(WithSku(m, Str(toUpperCase(m.sku.val)))) = size
         /\ getSizeFromVariant(WithSku(m, Str(Padded(m.sku.val)))) = size
    /\ TagRead(m) =>
         /\ getSizeFromVariant(WithTag(m, Str(toUpperCase(TagOf(m).val)))) = size
         /\ getSizeFromVariant(WithTag(m, Str(Padded(TagOf(m).val)))) = size
    /\ \A t \in Spellings500g : OnlySignal(m, Str(t)) => size = Str("500g")
    /\ \A t \in Spellings1kg : OnlySignal(m, Str(t)) => size = Str("1kg")

\* a sku written "1 KG", nothing else on the line: a 1kg line
C7_Witness ==
  /\ Classified
  /\ LastLine.merchandise.sku = Str(<<"1"," ","K","G">>)
  /\ LastLine.merchandise.title = undefined
  /\ TagOf(LastLine.merchandise) = undefined
  /\ size = Str("1kg")

-----------------------------------------------------------------------------
\* a line missing its id, its quantity, its merchandise or its merchandise kind
Malformed(line) ==
  \/ line.id = undefined
  \/ line.quantity = undefined
  \/ line.merchandise = undefined
  \/ line.merchandise.typename = undefined

WellFormedQualifying(line) == ~Malformed(line) /\ Qualifies(line)

(* C8: in an eligible run a line missing a required field produces no       *)
(* candidate, and the other lines get the candidates they would get         *)
(* without it: the candidates are those of the well-formed qualifying       *)
(* lines, in order.                                                         *)
C8_MalformedLineSkipped ==
  (Returned /\ NamesProductClass) =>
    /\ Len(Emitted) = Len(SelectSeq(Lines, WellFormedQualifying))
    /\ \A j \in 1..Len(Emitted) :
         TargetId(Emitted[j]) = SelectSeq(Lines, WellFormedQualifying)[j].id

-----------------------------------------------------------------------------
ExpectedMessage(C, q) ==
  CASE C = "500g" /\ q = 6 -> "6x 500g Bundle Deal - Save R24"
    [] C = "500g" /\ q = 12 -> "12x 500g Bundle Deal - Save R108"
    [] C = "1kg" /\ q = 6 -> "6x 1kg Bundle Deal - Save R54"
    [] C = "1kg" /\ q = 12 -> "12x 1kg Bundle Deal - Save R168"

(* C9: the message of every returned candidate is                           *)
(* "<quantity>x <category> Bundle Deal - Save R<savings>" for the quantity  *)
(* and category of its line, the savings in whole currency units.           *)
C9_MessageTemplate ==
  (Returned /\ Len(Emitted) = Len(QualifyingLines)) =>
    \A j \in 1..Len(Emitted) :
      LET line == QualifyingLines[j]
          C == getSizeFromVariant(line.merchandise).val
      IN Emitted[j].message = ExpectedMessage(C, line.quantity.val)

\* 6 x 500g and 12 x 1kg
C9_Witness ==
  /\ Returned /\ Len(Emitted) = 2
  /\ Emitted[1].message = "6x 500g Bundle Deal - Save R24"
  /\ Emitted[2].message = "12x 1kg Bundle Deal - Save R168"

-----------------------------------------------------------------------------
\* the signal that decides: the first of tag, title, sku with a keyword in it
DecidingSignal(m) ==
  IF TagRead(m) /\ HasKeyword(TagOf(m)) THEN TagOf(m)
  ELSE IF HasKeyword(m.title) THEN m.title
  ELSE m.sku

(* C10: when the deciding signal holds keywords of both categories, the     *)
(* line is classified as the category declared first, 500g, wherever the    *)
(* keywords stand in the text.                                              *)
C10_FirstDeclaredWins ==
  Classified =>
    LET v == DecidingSignal(LastLine.merchandise) IN
    (HasKeywordOf(v, "500g") /\ HasKeywordOf(v, "1kg")) => size = Str("500g")

\* a title reading "1kg/500g", no tag: the line is a 500g line
C10_Witness ==
  /\ Classified
  /\ TagOf(LastLine.merchandise) = undefined
  /\ LastLine.merchandise.title = Str(<<"1","k","g","/","5","0","0","g">>)
  /\ size = Str("500g")

-----------------------------------------------------------------------------
\* the table in force gives no saving to this line: its bundle total is the
\* full price or more
DegenerateTierFor(line) ==
  \E C \in Categories :
    /\ PlainLineOf(line, C)
    /\ IsTierQuantity(line.quantity)
    /\ discountConfig[C].tiers[NumberToString(line.quantity.val)]
         >= discountConfig[C].unitPrice * line.quantity.val

(* C11: under any pricing table, misconfigured ones included, every         *)
(* returned candidate has a strictly positive amount, and a line whose      *)
(* tier gives a zero or negative discount gets no candidate.                *)
C11_PositiveAmounts ==
  Returned =>
    /\ \A j \in 1..Len(Emitted) : Emitted[j].value.fixedAmount.amount # "0.00"
    /\ \A k \in 1..Len(Lines) :
         DegenerateTierFor(Lines[k]) =>
           \A j \in 1..Len(Emitted) : TargetId(Emitted[j]) # Lines[k].id

-----------------------------------------------------------------------------
\* the categories a signal value carries a keyword of
CategoriesIn(v) == {C \in Categories : HasKeywordOf(v, C)}

(* C12: the tag is consulted first, then the title, then the sku; a source  *)
(* that is absent, empty or without any keyword passes the search on to     *)
(* the next one; the result is a category matched by the first source that  *)
(* matches, and null exactly when no source holds a keyword.                *)
C12_SourceFallThrough ==
  Classified =>
    LET m == LastLine.merchandise IN
    /\ IF CategoriesIn(TagOf(m)) # {} THEN size.type = "string" /\ size.val \in CategoriesIn(TagOf(m))
       ELSE IF CategoriesIn(m.title) # {} THEN size.type = "string" /\ size.val \in CategoriesIn(m.title)
       ELSE IF CategoriesIn(m.sku) # {} THEN size.type = "string" /\ size.val \in CategoriesIn(m.sku)
       ELSE size = null
    /\ size = null <=>
         (CategoriesIn(TagOf(m)) = {} /\ CategoriesIn(m.title) = {} /\ CategoriesIn(m.sku) = {})

\* a tag without keyword and an empty title in front of a sku that says 1kg
C12_Witness ==
  /\ Classified
  /\ TagOf(LastLine.merchandise) = Str(<<"x","l">>)
  /\ LastLine.merchandise.title = Str(<<>>)
  /\ LastLine.merchandise.sku = Str(T1kg)
  /\ size = Str("1kg")

-----------------------------------------------------------------------------
\* the lines of the cart that are product variants
VariantLines == SelectSeq(Lines, IsVariantLine)

(* C13: a line whose merchandise kind is not ProductVariant, or whose       *)
(* merchandise is absent, never gets a candidate, whatever its signals and  *)
(* quantity, and the candidates are those the cart returns without it.      *)
C13_NonVariantSkipped ==
  (Returned /\ NamesProductClass) =>
    /\ \A k \in 1..Len(Lines) :
         ~IsVariantLine(Lines[k]) =>
           \A j \in 1..Len(Emitted) : TargetId(Emitted[j]) # Lines[k].id
    /\ Len(Emitted) = Len(SelectSeq(VariantLines, Qualifies))
    /\ \A j \in 1..Len(Emitted) :
         LET line == SelectSeq(VariantLines, Qualifies)[j]
             sz == getSizeFromVariant(line.merchandise).val
         IN Emitted[j] = candidateFor(line, sz, calculateDiscount(sz, line.quantity))

\* a custom product titled 500g at quantity 6 in front of 12 x 1kg
C13_Witness ==
  /\ Returned /\ NamesProductClass /\ Len(Lines) = 2
  /\ Lines[1].merchandise # undefined
  /\ Lines[1].merchandise.typename = Str("CustomProduct")
  /\ Lines[1].merchandise.title = Str(T500g)
  /\ Lines[1].quantity = Num(6)
  /\ PlainLineOf(Lines[2], "1kg") /\ Lines[2].quantity = Num(12)
  /\ Len(Emitted) = 1
  /\ TargetId(Emitted[1]) = Lines[2].id
  /\ Emitted[1].value.fixedAmount.amount = "168.00"

-----------------------------------------------------------------------------
\* the category a line's own signals give it: the first declared category
\* among those of the first signal that holds a keyword
OwnCategory(m) ==
  LET cs == IF CategoriesIn(TagOf(m)) # {} THEN CategoriesIn(TagOf(m))
            ELSE IF CategoriesIn(m.title) # {} THEN CategoriesIn(m.title)
            ELSE CategoriesIn(m.sku)
  IN IF "500g" \in cs THEN "500g" ELSE "1kg"

\* what a line gets, read off the line alone: nothing, or one candidate
OwnDecision(line) ==
  IF Qualifies(line)
  THEN << [targets |-> << [cartLine |-> [id |-> line.id]] >>,
           message |-> ExpectedMessage(OwnCategory(line.merchandise), line.quantity.val),
           value |-> [fixedAmount |->
                        [amount |-> ExpectedAmount(OwnCategory(line.merchandise),
                                                   line.quantity.val)]]] >>
  ELSE <<>>

RECURSIVE Decisions(_)
Decisions(ls) ==
  IF ls = <<>> THEN <<>> ELSE OwnDecision(Head(ls)) \o Decisions(Tail(ls))

(* C14: what a line gets depends on its own quantity and signals only: the  *)
(* returned candidates are the decisions of the lines taken one by one, in  *)
(* cart order, so that no other line changes a line's candidate and         *)
(* quantities are never added up across lines.                              *)
C14_LineIndependence ==
  (Returned /\ NamesProductClass) => Emitted = Decisions(Lines)

\* two separate lines of 3 x 500g: no discount
C14_Witness ==
  /\ Returned /\ NamesProductClass /\ Len(Lines) = 2
  /\ PlainLineOf(Lines[1], "500g") /\ Lines[1].quantity = Num(3)
  /\ PlainLineOf(Lines[2], "500g") /\ Lines[2].quantity = Num(3)
  /\ result.operations = <<>>


====
